---- MODULE Spec2Model ----
(***************************************************************************)
(* A model of the Mimir charm (src/src/charm.py) and of the object-storage *)
(* requirer it consumes (src/lib/charms/s3proxy_k8s/v0/object_storage.py). *)
(*                                                                         *)
(* One action is one hook: the event handler runs to its end, or to the    *)
(* point where an exception leaves it.  The workload container (files,     *)
(* directories, Pebble plan, service) is the state the handlers act on.    *)
(* Python values keep their shape: a dict is a function from keys to       *)
(* tagged scalars (nested keys are written as dotted paths), None and {}   *)
(* are distinct values, YAML text is a sequence of lines.                  *)
(***************************************************************************)
EXTENDS Integers, Sequences, FiniteSets, TLC

(***************************************************************************)
(* Bounds of the model.                                                    *)
(***************************************************************************)
\* number of topology identifiers an alert bundle can mention
MaxTopologies == 1
\* number of distinct rule-group documents
MaxRuleDocs == 1
\* the s3 relations of an object-storage provider
MaxRelations == 2

(***************************************************************************)
(* Program constants.                                                      *)
(***************************************************************************)
MIMIR_CONFIG == "/etc/mimir/mimir-config.yaml"
MIMIR_DIR == "/mimir"
RULES_DIR == MIMIR_DIR \o "/rules"
_name == "mimir"
_http_listen_port == 9009
_instance_addr == "127.0.0.1"

(***************************************************************************)
(* Python values.                                                          *)
(***************************************************************************)
PyStr(s) == [t |-> "str", v |-> s]
PyInt(n) == [t |-> "int", v |-> ToString(n)]
PyBool(b) == [t |-> "bool", v |-> IF b THEN "true" ELSE "false"]

EmptyMap == [k \in {} |-> PyStr("")]
PyDict(m) == [py |-> "dict", items |-> m]
PyNone == [py |-> "None", items |-> EmptyMap]
\* a parsed YAML document that is neither a mapping nor None (a bare scalar)
PyScalar == [py |-> "str", items |-> EmptyMap]

\* Python truthiness of a str
Truthy(s) == s # ""

(***************************************************************************)
(* Paths of the container's filesystem.                                    *)
(***************************************************************************)
\* the directories a path lies under, "/a" and "/a/b" for "/a/b/c"
Parents(p) ==
    { SubSeq(p, 1, i - 1) : i \in { j \in 2..Len(p) : SubSeq(p, j, j) = "/" } }

\* p is d itself or lies under d
Under(p, d) ==
    \/ p = d
    \/ /\ Len(p) > Len(d)
       /\ SubSeq(p, 1, Len(d)) = d
       /\ SubSeq(p, Len(d) + 1, Len(d) + 1) = "/"

\* os.path.join(a, b) for a relative b
PathJoin(a, b) == a \o "/" \o b

(***************************************************************************)
(* YAML.  A document is a sequence of lines, one per leaf of the mapping,  *)
(* in the order of the sorted keys.  A scalar is written plain unless a    *)
(* plain scalar of the same characters would be read back as something     *)
(* other than a str, in which case it is quoted.                           *)
(***************************************************************************)
\* the plain scalars the YAML reader resolves to bool, null or int
YamlBools == {"true", "false"}
YamlNulls == {"null", "~", ""}
YamlInts == {ToString(_http_listen_port), "1"}

YamlLine(key, val) ==
    [key |-> key,
     style |-> IF val.t = "str" /\ val.v \in YamlBools \cup YamlNulls \cup YamlInts
               THEN "quoted" ELSE "plain",
     chars |-> val.v]

\* a reader that resolves no plain scalar: every scalar is read as a str
YamlScalar_AllStr(line) == PyStr(line.chars)

YamlScalar(line) ==
    IF line.style = "quoted" THEN PyStr(line.chars)
    ELSE IF line.chars \in YamlBools THEN [t |-> "bool", v |-> line.chars]
    ELSE IF line.chars \in YamlInts THEN [t |-> "int", v |-> line.chars]
    ELSE PyStr(line.chars)

\* the keys of every mapping this charm serialises, sorted
KeyOrder ==
    << "blocks_storage.bucket_store.sync_dir",
       "blocks_storage.storage_prefix",
       "blocks_storage.tsdb.dir",
       "common.storage.backend",
       "common.storage.filesystem.dir",
       "common.storage.s3.access_key_id",
       "common.storage.s3.bucket_name",
       "common.storage.s3.endpoint",
       "common.storage.s3.insecure",
       "common.storage.s3.secret_access_key",
       "compactor.data_dir",
       "compactor.sharding_ring.kvstore.store",
       "distributor.ring.instance_addr",
       "distributor.ring.kvstore.store",
       "groups.0.name",
       "ingester.ring.instance_addr",
       "ingester.ring.kvstore.store",
       "ingester.ring.replication_factor",
       "multitenancy_enabled",
       "ruler_storage.backend",
       "ruler_storage.local.directory",
       "server.http_listen_port",
       "server.log_level",
       "store_gateway.sharding_ring.replication_factor" >>

\* the keys of m in the order of the document, and the lines of these keys
DumpKeys(m) == SelectSeq(KeyOrder, LAMBDA k : k \in DOMAIN m)
DumpLines(m, ks) == [i \in 1..Len(ks) |-> YamlLine(ks[i], m[ks[i]])]

\* file contents that are not the dump of a non-empty dict
EmptyText == << >>
FlowEmptyText == << [key |-> "", style |-> "flow", chars |-> "{}"] >>
ScalarText == << [key |-> "", style |-> "plain", chars |-> "mimir"] >>
MalformedText == << [key |-> "", style |-> "plain", chars |-> "{" ] >>

\* yaml.safe_dump of a dict
safe_dump(m) == IF DOMAIN m = {} THEN FlowEmptyText ELSE DumpLines(m, DumpKeys(m))

\* the mapping of the lines of text from line i on
RECURSIVE LoadFrom(_, _)
LoadFrom(text, i) ==
    IF i > Len(text) THEN EmptyMap
    ELSE (text[i].key :> YamlScalar(text[i])) @@ LoadFrom(text, i + 1)

\* yaml.safe_load: the value, or the exception it raises
safe_load(text) ==
    IF text = MalformedText THEN [raises |-> "YAMLError", value |-> PyNone]
    ELSE IF text = EmptyText THEN [raises |-> "none", value |-> PyNone]
    ELSE IF text = ScalarText THEN [raises |-> "none", value |-> PyScalar]
    ELSE IF text = FlowEmptyText THEN [raises |-> "none", value |-> PyDict(EmptyMap)]
    ELSE [raises |-> "none", value |-> PyDict(LoadFrom(text, 1))]

(***************************************************************************)
(* The object-storage requirer.                                            *)
(***************************************************************************)
S3Fields == {"access-key", "bucket", "endpoint", "secret-key"}

NoRelation ==
    [exists |-> FALSE, app |-> FALSE, readable |-> FALSE,
     data |-> [f \in S3Fields |-> ""]]

\* ObjectStorageRequirer._endpoints_from_relation_data for relation r: the
\* dict, or the exception that leaves the property
_endpoints_from_relation_data(r) ==
    IF ~r.exists THEN [raises |-> "none", value |-> EmptyMap]
    ELSE IF ~r.app
         \* `not relation.app and not relation.app.name` with app None
         THEN [raises |-> "AttributeError", value |-> EmptyMap]
    ELSE IF ~r.readable THEN [raises |-> "none", value |-> EmptyMap]
    ELSE IF ~(\A k \in S3Fields : Truthy(r.data[k]))
         THEN [raises |-> "none", value |-> EmptyMap]
    ELSE [raises |-> "none", value |-> r.data]

bucket_info(r) == _endpoints_from_relation_data(r)

(***************************************************************************)
(* The desired configuration and the desired Pebble layer.                 *)
(***************************************************************************)
\* a substitution that leaves the endpoint as it is
StripHttp_Keep(e) == e

\* re.sub(r"^http://(.*)", r"\1", e)
StripHttp(e) ==
    IF Len(e) >= 7 /\ SubSeq(e, 1, 7) = "http://" THEN SubSeq(e, 8, Len(e)) ELSE e

common_storage(s3) ==
    IF DOMAIN s3 # {}
    THEN [k \in {"common.storage.backend", "common.storage.s3.endpoint",
                 "common.storage.s3.access_key_id",
                 "common.storage.s3.secret_access_key",
                 "common.storage.s3.bucket_name", "common.storage.s3.insecure"} |->
            CASE k = "common.storage.backend" -> PyStr("s3")
              [] k = "common.storage.s3.endpoint" -> PyStr(StripHttp(s3["endpoint"]))
              [] k = "common.storage.s3.access_key_id" -> PyStr(s3["access-key"])
              [] k = "common.storage.s3.secret_access_key" -> PyStr(s3["secret-key"])
              [] k = "common.storage.s3.bucket_name" -> PyStr(s3["bucket"])
              [] OTHER -> PyBool(TRUE)]
    ELSE [k \in {"common.storage.backend", "common.storage.filesystem.dir"} |->
            IF k = "common.storage.backend" THEN PyStr("filesystem")
            ELSE PyStr(MIMIR_DIR \o "/data")]

StaticConfig ==
    [k \in {"multitenancy_enabled",
            "blocks_storage.storage_prefix", "blocks_storage.bucket_store.sync_dir",
            "blocks_storage.tsdb.dir",
            "compactor.data_dir", "compactor.sharding_ring.kvstore.store",
            "distributor.ring.instance_addr", "distributor.ring.kvstore.store",
            "ingester.ring.instance_addr", "ingester.ring.kvstore.store",
            "ingester.ring.replication_factor",
            "ruler_storage.backend", "ruler_storage.local.directory",
            "server.http_listen_port", "server.log_level",
            "store_gateway.sharding_ring.replication_factor"} |->
       CASE k = "multitenancy_enabled" -> PyBool(FALSE)
         [] k = "blocks_storage.storage_prefix" -> PyStr("tsdb")
         [] k = "blocks_storage.bucket_store.sync_dir" -> PyStr(MIMIR_DIR \o "/tsdb-sync")
         [] k = "blocks_storage.tsdb.dir" -> PyStr(MIMIR_DIR \o "/tsdb")
         [] k = "compactor.data_dir" -> PyStr(MIMIR_DIR \o "/compactor")
         [] k = "compactor.sharding_ring.kvstore.store" -> PyStr("memberlist")
         [] k = "distributor.ring.instance_addr" -> PyStr(_instance_addr)
         [] k = "distributor.ring.kvstore.store" -> PyStr("memberlist")
         [] k = "ingester.ring.instance_addr" -> PyStr(_instance_addr)
         [] k = "ingester.ring.kvstore.store" -> PyStr("memberlist")
         [] k = "ingester.ring.replication_factor" -> PyInt(1)
         [] k = "ruler_storage.backend" -> PyStr("local")
         [] k = "ruler_storage.local.directory" -> PyStr(RULES_DIR)
         [] k = "server.http_listen_port" -> PyInt(_http_listen_port)
         [] k = "server.log_level" -> PyStr("error")
         [] OTHER -> PyInt(1)]

\* a builder that ignores the binding
_build_mimir_config_Unbound(s3) == common_storage(EmptyMap) @@ StaticConfig

\* a builder that keeps the rules under the data directory
_build_mimir_config_RulesUnderData(s3) ==
    [common_storage(s3) @@ StaticConfig
        EXCEPT !["ruler_storage.local.directory"] = PyStr(MIMIR_DIR \o "/data/rules")]

\* MimirK8SOperatorCharm._build_mimir_config, given bucket_info's value
_build_mimir_config(s3) == common_storage(s3) @@ StaticConfig

\* the services of MimirK8SOperatorCharm._pebble_layer
_pebble_layer ==
    [n \in {_name} |->
        [override |-> "replace",
         summary |-> "mimir daemon",
         command |-> "/bin/mimir --config.file=" \o MIMIR_CONFIG,
         startup |-> "enabled"]]

(***************************************************************************)
(* Exceptions.                                                             *)
(***************************************************************************)
NoExc == [type |-> "none", message |-> ""]
Exc(type, message) == [type |-> type, message |-> message]

\* the exception classes a Pebble call can raise; all derive from ops.pebble.Error
PebbleKinds == {"PathError", "ProtocolError", "ConnectionError"}
\* issubclass(kind, ops.pebble.Error)
IsPebbleError(kind) == kind \in PebbleKinds
\* issubclass(kind, Exception): true of every exception of the model
IsException(kind) == kind # "none"

\* str(e) of an exception a collaborator raised
ErrorText(kind) ==
    CASE kind = "PathError" -> "kind - error"
      [] kind = "ProtocolError" -> "protocol error"
      [] kind = "ConnectionError" -> "connection refused"
      [] kind = "YAMLError" -> "while parsing a flow node"
      [] OTHER -> ""

(***************************************************************************)
(* The alert bundle of the remote-write provider.  A bundle maps topology  *)
(* identifiers to rule-group documents.                                    *)
(***************************************************************************)
Topologies == 1..MaxTopologies
RuleDocs == 1..MaxRuleDocs
TopologyId(i) == "topo" \o ToString(i)
RuleDoc(d) == [k \in {"groups.0.name"} |-> PyStr("group" \o ToString(d))]
Bundles == UNION { [T -> RuleDocs] : T \in SUBSET Topologies }

\* the directory of the rules and the file of topology i
tenant_dir == RULES_DIR \o "/anonymous"
RuleFile(i) == PathJoin(tenant_dir, "juju_" \o TopologyId(i) \o ".rules")

\* the paths the charm creates, and for each the directories that
\* make_parents=True and make_dirs=True create with it
WrittenPaths == {MIMIR_CONFIG, tenant_dir} \cup { RuleFile(i) : i \in Topologies }
ParentsOf == [p \in WrittenPaths |-> Parents(p)]

(***************************************************************************)
(* The workload container.  A handler works on a context c holding the     *)
(* container (files, dirs, plan, running), the unit (status, version) and  *)
(* the log of the collaborator calls the handler has issued.  Input f names *)
(* the call that fails in this hook, if any, and the exception it raises;  *)
(* a failing call changes nothing.                                         *)
(***************************************************************************)
NoFailure == [op |-> "none", path |-> "", kind |-> "none"]

FailsAt(f, op, path) == f.op = op /\ f.path = path
\* how the call (op, path) ends under f: "ok", or "raised" for a failure
ResOf(f, op, path) == IF FailsAt(f, op, path) THEN "raised" ELSE "ok"
\* the exception class the call (op, path) raises under f, "none" if it returns
KindOf(f, op, path) == IF FailsAt(f, op, path) THEN f.kind ELSE "none"
\* a call is logged with how it ended; "not-found" is the PathError of a
\* pull of a file that does not exist
Call(c, op, path, res, kind) ==
    [c EXCEPT !.calls = Append(@, [op |-> op, path |-> path, res |-> res, kind |-> kind])]
\* the call (op, path) under f, logged
Log(c, f, op, path) == Call(c, op, path, ResOf(f, op, path), KindOf(f, op, path))

\* a removal that takes the entry of path alone and leaves what is under it
remove_path_Flat(c, path, f) ==
    LET c1 == Log(c, f, "remove_path", path) IN
    IF FailsAt(f, "remove_path", path) THEN [c |-> c1, exc |-> Exc(f.kind, ErrorText(f.kind))]
    ELSE [c |-> [c1 EXCEPT !.files = [p \in DOMAIN c.files \ {path} |-> c.files[p]],
                           !.dirs = @ \ {path}],
          exc |-> NoExc]

\* Container.remove_path(path, recursive=True): rm -rf, an absent path is no error
remove_path(c, path, f) ==
    LET c1 == Log(c, f, "remove_path", path) IN
    IF FailsAt(f, "remove_path", path) THEN [c |-> c1, exc |-> Exc(f.kind, ErrorText(f.kind))]
    ELSE [c |-> [c1 EXCEPT !.files = [p \in { q \in DOMAIN c.files : ~Under(q, path) } |->
                                          c.files[p]],
                           !.dirs = { d \in c.dirs : ~Under(d, path) }],
          exc |-> NoExc]

\* Container.make_dir(path, make_parents=True)
make_dir(c, path, f) ==
    LET c1 == Log(c, f, "make_dir", path) IN
    IF FailsAt(f, "make_dir", path) THEN [c |-> c1, exc |-> Exc(f.kind, ErrorText(f.kind))]
    ELSE [c |-> [c1 EXCEPT !.dirs = @ \cup {path} \cup ParentsOf[path]], exc |-> NoExc]

\* a push whose error quotes the secret key of the text it was given
push_QuotingSecret(c, path, text, f) ==
    LET c1 == Log(c, f, "push", path)
        quoted == SelectSeq(text, LAMBDA l : l.key = "common.storage.s3.secret_access_key")
    IN  IF FailsAt(f, "push", path)
        THEN [c |-> c1,
              exc |-> Exc(f.kind, IF quoted = << >> THEN ErrorText(f.kind)
                                  ELSE ErrorText(f.kind) \o ": " \o quoted[1].chars)]
        ELSE [c |-> [c1 EXCEPT !.files = (path :> text) @@ @,
                               !.dirs = @ \cup ParentsOf[path]],
              exc |-> NoExc]

\* Container.push(path, text, make_dirs=True)
push(c, path, text, f) ==
    LET c1 == Log(c, f, "push", path) IN
    IF FailsAt(f, "push", path) THEN [c |-> c1, exc |-> Exc(f.kind, ErrorText(f.kind))]
    ELSE [c |-> [c1 EXCEPT !.files = (path :> text) @@ @,
                           !.dirs = @ \cup ParentsOf[path]],
          exc |-> NoExc]

\* Container.pull(path).read(): a missing file is a PathError
pull(c, path, f) ==
    IF FailsAt(f, "pull", path)
    THEN [c |-> Call(c, "pull", path, "raised", f.kind), exc |-> Exc(f.kind, ErrorText(f.kind)),
          ret |-> EmptyText]
    ELSE IF path \notin DOMAIN c.files
    THEN [c |-> Call(c, "pull", path, "not-found", "PathError"),
          exc |-> Exc("PathError", "not-found - stat " \o path), ret |-> EmptyText]
    ELSE [c |-> Call(c, "pull", path, "ok", "none"), exc |-> NoExc, ret |-> c.files[path]]

\* Container.get_plan().services
get_plan(c, f) ==
    LET c1 == Log(c, f, "get_plan", "") IN
    IF FailsAt(f, "get_plan", "")
    THEN [c |-> c1, exc |-> Exc(f.kind, ErrorText(f.kind)), ret |-> c.plan]
    ELSE [c |-> c1, exc |-> NoExc, ret |-> c.plan]

\* Container.add_layer(label, layer, combine=True): the layer's services, all
\* `override: replace`, replace the plan's services of the same name
add_layer(c, services, f) ==
    LET c1 == Log(c, f, "add_layer", "") IN
    IF FailsAt(f, "add_layer", "") THEN [c |-> c1, exc |-> Exc(f.kind, ErrorText(f.kind))]
    ELSE [c |-> [c1 EXCEPT !.plan = services @@ @], exc |-> NoExc]

\* Container.restart(name): stops the service if it runs, then starts it
restart(c, f) ==
    LET c1 == Log(c, f, "restart", "") IN
    IF FailsAt(f, "restart", "") THEN [c |-> c1, exc |-> Exc(f.kind, ErrorText(f.kind))]
    ELSE [c |-> [c1 EXCEPT !.running = TRUE], exc |-> NoExc]

\* PrometheusRemoteWriteProvider.update_endpoint()
update_endpoint(c, f) ==
    LET c1 == Log(c, f, "update_endpoint", "") IN
    IF FailsAt(f, "update_endpoint", "")
    THEN [c |-> c1, exc |-> Exc(f.kind, ErrorText(f.kind))]
    ELSE [c |-> c1, exc |-> NoExc]

(***************************************************************************)
(* The charm's methods.  Each returns the context it leaves and the        *)
(* exception that leaves it (NoExc on a normal return).                    *)
(***************************************************************************)
\* the loop of _push_alert_rules over alerts.items(), from identifier i on
RECURSIVE PushRulesFrom(_, _, _, _)
PushRulesFrom(c, alerts, i, f) ==
    IF i > MaxTopologies THEN [c |-> c, exc |-> NoExc]
    ELSE IF i \notin DOMAIN alerts THEN PushRulesFrom(c, alerts, i + 1, f)
    ELSE LET r == push(c, RuleFile(i), safe_dump(RuleDoc(alerts[i])), f) IN
         IF r.exc # NoExc THEN r ELSE PushRulesFrom(r.c, alerts, i + 1, f)

\* MimirK8SOperatorCharm._push_alert_rules
_push_alert_rules(c, alerts, f) ==
    LET r == make_dir(c, tenant_dir, f) IN
    IF r.exc # NoExc THEN r ELSE PushRulesFrom(r.c, alerts, 1, f)

\* `except PebbleError` around remove_path
CaughtRemove(kind) == IsPebbleError(kind)
\* `except (ProtocolError, PathError)` around _push_alert_rules
CaughtPushRules(kind) == kind \in {"ProtocolError", "PathError"}
\* a handler that names PathError alone
CaughtPull_PathOnly(kind) == kind = "PathError"

\* `except (ProtocolError, PathError)` around pull and safe_load
CaughtPull(kind) == kind \in {"ProtocolError", "PathError"}
\* a handler that names ProtocolError alone
CaughtConfig_ProtocolOnly(kind) == kind = "ProtocolError"

\* `except (ProtocolError, Exception)` of _mimir_config_changed
CaughtConfig(kind) == kind = "ProtocolError" \/ IsException(kind)

\* MimirK8SOperatorCharm._set_alerts
_set_alerts(c, alerts, f) ==
    LET r1 == remove_path(c, RULES_DIR, f) IN
    IF r1.exc # NoExc
    THEN IF CaughtRemove(r1.exc.type)
         THEN [c |-> r1.c,
               exc |-> Exc("BlockedStatusError",
                           "Failed to remove alerts directory; see debug logs")]
         ELSE r1
    ELSE LET r2 == _push_alert_rules(r1.c, alerts, f) IN
         IF CaughtPushRules(r2.exc.type)
         THEN [c |-> r2.c,
               exc |-> Exc("BlockedStatusError",
                           "Failed to push updated alert files; see debug logs")]
         ELSE r2

\* MimirK8SOperatorCharm._pebble_layer_changed
_pebble_layer_changed(c, f) ==
    LET r1 == get_plan(c, f) IN
    IF r1.exc # NoExc THEN [c |-> r1.c, exc |-> r1.exc, ret |-> FALSE]
    ELSE IF DOMAIN r1.ret = {} \/ r1.ret # _pebble_layer
    THEN LET r2 == add_layer(r1.c, _pebble_layer, f) IN
         [c |-> r2.c, exc |-> r2.exc, ret |-> r2.exc = NoExc]
    ELSE [c |-> r1.c, exc |-> NoExc, ret |-> FALSE]

\* MimirK8SOperatorCharm._running_mimir_config
_running_mimir_config(c, f) ==
    IF ~c.can_connect THEN [c |-> c, exc |-> NoExc, ret |-> PyDict(EmptyMap)]
    ELSE LET r == pull(c, MIMIR_CONFIG, f) IN
         IF CaughtPull(r.exc.type)
         THEN [c |-> r.c, exc |-> NoExc, ret |-> PyDict(EmptyMap)]
         ELSE IF r.exc # NoExc THEN [c |-> r.c, exc |-> r.exc, ret |-> PyNone]
         ELSE LET v == safe_load(r.ret) IN
              IF CaughtPull(v.raises)
              THEN [c |-> r.c, exc |-> NoExc, ret |-> PyDict(EmptyMap)]
              ELSE IF v.raises # "none"
              THEN [c |-> r.c, exc |-> Exc(v.raises, ErrorText(v.raises)), ret |-> PyNone]
              ELSE [c |-> r.c, exc |-> NoExc, ret |-> v.value]

\* a configuration step whose configuration depends on the service's state
_mimir_config_changed_ReadsContainer(c, rel, f) ==
    LET s3 == bucket_info(rel) IN
    IF s3.raises # "none"
    THEN [c |-> c, exc |-> Exc(s3.raises, ""), ret |-> FALSE]
    ELSE
    LET config == [_build_mimir_config(s3.value) EXCEPT
                      !["server.log_level"] = PyStr(IF c.running THEN "error" ELSE "debug")]
        r1 == _running_mimir_config(c, f)
    IN  IF r1.exc # NoExc
        THEN [c |-> r1.c,
              exc |-> IF CaughtConfig(r1.exc.type)
                      THEN Exc("BlockedStatusError", r1.exc.message) ELSE r1.exc,
              ret |-> FALSE]
        ELSE IF r1.ret # PyDict(config)
        THEN LET r2 == push(r1.c, MIMIR_CONFIG, safe_dump(config), f) IN
             IF r2.exc # NoExc
             THEN [c |-> r2.c,
                   exc |-> IF CaughtConfig(r2.exc.type)
                           THEN Exc("BlockedStatusError", r2.exc.message) ELSE r2.exc,
                   ret |-> FALSE]
             ELSE [c |-> r2.c, exc |-> NoExc, ret |-> TRUE]
        ELSE [c |-> r1.c, exc |-> NoExc, ret |-> FALSE]

\* MimirK8SOperatorCharm._mimir_config_changed, for relation rel of the requirer
_mimir_config_changed(c, rel, f) ==
    LET s3 == bucket_info(rel) IN
    IF s3.raises # "none"
    THEN [c |-> c, exc |-> Exc(s3.raises, ""), ret |-> FALSE]
    ELSE
    LET config == _build_mimir_config(s3.value)
        r1 == _running_mimir_config(c, f)
    IN  IF r1.exc # NoExc
        THEN [c |-> r1.c,
              exc |-> IF CaughtConfig(r1.exc.type)
                      THEN Exc("BlockedStatusError", r1.exc.message) ELSE r1.exc,
              ret |-> FALSE]
        ELSE IF r1.ret # PyDict(config)
        THEN LET r2 == push(r1.c, MIMIR_CONFIG, safe_dump(config), f) IN
             IF r2.exc # NoExc
             THEN [c |-> r2.c,
                   exc |-> IF CaughtConfig(r2.exc.type)
                           THEN Exc("BlockedStatusError", r2.exc.message) ELSE r2.exc,
                   ret |-> FALSE]
             ELSE [c |-> r2.c, exc |-> NoExc, ret |-> TRUE]
        ELSE [c |-> r1.c, exc |-> NoExc, ret |-> FALSE]

WaitingStatus(m) == [name |-> "waiting", message |-> m]
BlockedStatus(m) == [name |-> "blocked", message |-> m]
ActiveStatus == [name |-> "active", message |-> ""]
MaintenanceStatus == [name |-> "maintenance", message |-> ""]

SetStatus(c, st) == [c EXCEPT !.status = st]

\* a tail that does not restart the service
ConfigureTail_NoRestart(c, restartNeeded, f) ==
    LET r2 == update_endpoint(c, f) IN
    IF r2.exc # NoExc THEN r2
    ELSE [c |-> SetStatus(r2.c, ActiveStatus), exc |-> NoExc]

\* a tail that republishes the endpoint only after a restart
ConfigureTail_EndpointOnRestart(c, restartNeeded, f) ==
    IF ~restartNeeded THEN [c |-> SetStatus(c, ActiveStatus), exc |-> NoExc]
    ELSE LET r1 == restart(c, f) IN
         IF r1.exc # NoExc THEN r1
         ELSE LET r2 == update_endpoint(r1.c, f) IN
              IF r2.exc # NoExc THEN r2
              ELSE [c |-> SetStatus(r2.c, ActiveStatus), exc |-> NoExc]

\* the tail of _configure_mimir, after the try block
ConfigureTail(c, restartNeeded, f) ==
    LET r1 == IF restartNeeded THEN restart(c, f) ELSE [c |-> c, exc |-> NoExc] IN
    IF r1.exc # NoExc THEN r1
    ELSE LET r2 == update_endpoint(r1.c, f) IN
         IF r2.exc # NoExc THEN r2
         ELSE [c |-> SetStatus(r2.c, ActiveStatus), exc |-> NoExc]

\* what `except BlockedStatusError` of _configure_mimir does with exception e
CatchBlocked(c, e) ==
    IF e.type = "BlockedStatusError"
    THEN [c |-> SetStatus(c, BlockedStatus(e.message)), exc |-> NoExc]
    ELSE [c |-> c, exc |-> e]

\* the try block with `or` in place of any([...]): the configuration step
\* is skipped when the layer step has added the layer
Reconcile_ShortCircuit(c, alerts, rel, f) ==
    LET r1 == _set_alerts(c, alerts, f) IN
    IF r1.exc # NoExc THEN CatchBlocked(r1.c, r1.exc)
    ELSE
    LET r2 == _pebble_layer_changed(r1.c, f) IN
    IF r2.exc # NoExc THEN CatchBlocked(r2.c, r2.exc)
    ELSE IF r2.ret THEN ConfigureTail(r2.c, TRUE, f)
    ELSE
    LET r3 == _mimir_config_changed(r2.c, rel, f) IN
    IF r3.exc # NoExc THEN CatchBlocked(r3.c, r3.exc)
    ELSE ConfigureTail(r3.c, r3.ret, f)

\* the try block with the configuration step ahead of the layer step
Reconcile_ConfigFirst(c, alerts, rel, f) ==
    LET r1 == _set_alerts(c, alerts, f) IN
    IF r1.exc # NoExc THEN CatchBlocked(r1.c, r1.exc)
    ELSE
    LET r3 == _mimir_config_changed(r1.c, rel, f) IN
    IF r3.exc # NoExc THEN CatchBlocked(r3.c, r3.exc)
    ELSE
    LET r2 == _pebble_layer_changed(r3.c, f) IN
    IF r2.exc # NoExc THEN CatchBlocked(r2.c, r2.exc)
    ELSE ConfigureTail(r2.c, r2.ret \/ r3.ret, f)

\* _configure_mimir on a container that can be connected to: the try block
\* and what follows it
Reconcile(c, alerts, rel, f) ==
    LET r1 == _set_alerts(c, alerts, f) IN
    IF r1.exc # NoExc THEN CatchBlocked(r1.c, r1.exc)
    ELSE
    LET r2 == _pebble_layer_changed(r1.c, f) IN
    IF r2.exc # NoExc THEN CatchBlocked(r2.c, r2.exc)
    ELSE
    LET r3 == _mimir_config_changed(r2.c, rel, f) IN
    IF r3.exc # NoExc THEN CatchBlocked(r3.c, r3.exc)
    ELSE ConfigureTail(r3.c, r2.ret \/ r3.ret, f)

\* a pass that does not check whether the container can be connected to
_configure_mimir_Unguarded(c, alerts, rel, f) == Reconcile(c, alerts, rel, f)

\* MimirK8SOperatorCharm._configure_mimir
_configure_mimir(c, alerts, rel, f) ==
    IF ~c.can_connect
    THEN [c |-> SetStatus(c, WaitingStatus("Waiting for Pebble ready")), exc |-> NoExc]
    ELSE Reconcile(c, alerts, rel, f)

(***************************************************************************)
(* The workload version.                                                   *)
(***************************************************************************)
Whitespace == {" ", "\t", "\n"}
CharAt(s, i) == SubSeq(s, i, i)

\* the first index from i on that holds no whitespace (Len(s) + 1 if none)
RECURSIVE SkipSpace(_, _)
SkipSpace(s, i) ==
    IF i <= Len(s) /\ CharAt(s, i) \in Whitespace THEN SkipSpace(s, i + 1) ELSE i

\* the first index from i on that holds whitespace (Len(s) + 1 if none)
RECURSIVE TokenEnd(_, _)
TokenEnd(s, i) ==
    IF i <= Len(s) /\ CharAt(s, i) \notin Whitespace THEN TokenEnd(s, i + 1) ELSE i

\* \s*(\S+) anchored at i: the group, or "" if it does not match
TokenAt(s, i) == LET b == SkipSpace(s, i) IN SubSeq(s, b, TokenEnd(s, b) - 1)

\* [Vv]ersion:?\s*(\S+) anchored at i: the group, or "" if it does not match
VersionAt(s, i) ==
    IF i + 6 > Len(s) \/ SubSeq(s, i, i + 6) \notin {"Version", "version"} THEN ""
    ELSE LET j == i + 7
             withColon == IF j <= Len(s) /\ CharAt(s, j) = ":"
                          THEN TokenAt(s, j + 1) ELSE ""
         IN  IF withColon # "" THEN withColon ELSE TokenAt(s, j)

\* re.search(r"[Vv]ersion:?\s*(\S+)", s) from index i on: group(1), or "" for None
RECURSIVE SearchVersion(_, _)
SearchVersion(s, i) ==
    IF i > Len(s) THEN ""
    ELSE IF VersionAt(s, i) # "" THEN VersionAt(s, i)
    ELSE SearchVersion(s, i + 1)

\* what `/bin/mimir -version` can print
VersionOutputs ==
    { "Mimir, version 2.4.0 (branch: HEAD, revision: 32137ee)",
      "flag provided but not defined" }

\* group(1) of the search on each output, "" for None
VersionOf == [out \in VersionOutputs |-> SearchVersion(out, 1)]

\* MimirK8SOperatorCharm._mimir_version: the version, "" for None; out is the
\* output of the command
_mimir_version(c, out, f) ==
    IF ~c.can_connect THEN [c |-> c, exc |-> NoExc, ret |-> ""]
    ELSE LET c1 == Log(c, f, "exec", "") IN
         IF FailsAt(f, "exec", "")
         THEN [c |-> c1, exc |-> Exc(f.kind, ErrorText(f.kind)), ret |-> ""]
         ELSE [c |-> c1, exc |-> NoExc, ret |-> VersionOf[out]]

\* MimirK8SOperatorCharm._set_mimir_version
_set_mimir_version(c, out, f) ==
    LET r == _mimir_version(c, out, f) IN
    IF r.exc # NoExc THEN [c |-> r.c, exc |-> r.exc]
    ELSE IF r.ret = "" THEN [c |-> r.c, exc |-> NoExc]
    ELSE [c |-> [r.c EXCEPT !.workload_version = r.ret], exc |-> NoExc]

(***************************************************************************)
(* The object-storage provider.  Its relations are a function from the     *)
(* relation id to the two application databags of that relation: remote is *)
(* the bucket the requirer has published ("" if none), app the databag of  *)
(* the provider's application.                                             *)
(***************************************************************************)
\* Juju numbers the relations of a model from 0
RelIds == 0..(MaxRelations - 1)
NoDatabag == [k \in {} |-> ""]
\* the relation_id argument: Optional[int], None by default
NoRelationId == [given |-> FALSE, id |-> 0]
RelationId(i) == [given |-> TRUE, id |-> i]
\* `if relation_id:`: None and 0 are false
TruthyId(a) == a.given /\ a.id # 0

\* the body of both loops of update_endpoints, over the relations in ids
UpdateEach(rels, ids, data) ==
    [i \in DOMAIN rels |->
        IF i \in ids /\ Truthy(rels[i].remote)
        THEN [rels[i] EXCEPT !.app = (("bucket" :> rels[i].remote) @@ data) @@ @]
        ELSE rels[i]]

\* SingleAuthObjectStorageProvider.update_endpoints
update_endpoints(rels, data, relation_id) ==
    IF TruthyId(relation_id)
    THEN UpdateEach(rels, { i \in DOMAIN rels : i = relation_id.id }, data)
    ELSE UpdateEach(rels, DOMAIN rels, data)

\* a provider without relations that has updated nothing
NoUpdate == [called |-> FALSE, relation_id |-> NoRelationId, data |-> NoDatabag]
NoProvider == [relations |-> [i \in {} |-> [remote |-> "", app |-> NoDatabag]],
               update |-> NoUpdate]

(***************************************************************************)
(* State.                                                                  *)
(***************************************************************************)
VARIABLES
    can_connect,        \* Container.can_connect()
    files,              \* the container's files: path -> text
    dirs,               \* the container's directories
    plan,               \* the services of the Pebble plan: name -> service
    running,            \* whether the mimir service runs
    status,             \* unit.status
    workload_version,   \* the workload version of the unit, "" if unset
    alerts,             \* remote_write_provider.alerts
    relation,           \* the s3 relation as the requirer sees it
    current_endpoints,  \* ObjectStorageRequirer._stored.current_endpoints
    requested_bucket,   \* "bucket" in this application's databag of the s3 relation
    event,              \* the hook that has just run, "none" between two hooks
    pass,               \* whether that hook entered _configure_mimir
    calls,              \* the collaborator calls that hook issued, in order
    raised,             \* the exception that left that hook, NoExc if it returned
    settled,            \* a pass has ended Active and nothing has changed since
    repeat,             \* that hook's pass ran on a settled unit with unchanged inputs
    s3_provider         \* an object-storage provider: its relations and its last update

vars == << can_connect, files, dirs, plan, running, status, workload_version, alerts,
           relation, current_endpoints, requested_bucket, event, pass, calls, raised,
           settled, repeat, s3_provider >>

\* the context a hook starts with
Ctx ==
    [can_connect |-> can_connect, files |-> files, dirs |-> dirs, plan |-> plan,
     running |-> running, status |-> status, workload_version |-> workload_version,
     calls |-> << >>]

NoFiles == [p \in {} |-> EmptyText]
NoServices == [n \in {} |-> [override |-> "", summary |-> "", command |-> "", startup |-> ""]]

\* the failures a hook can meet: at most one collaborator call fails.  A call
\* is given every exception class its callers tell apart; the callers of
\* get_plan, add_layer, restart, exec and update_endpoint have no handler, so
\* one class stands for all.
Failures ==
    {NoFailure}
    \cup { [op |-> "remove_path", path |-> RULES_DIR, kind |-> k] :
              k \in {"PathError", "ConnectionError"} }
    \cup { [op |-> "make_dir", path |-> tenant_dir, kind |-> k] : k \in PebbleKinds }
    \cup { [op |-> "push", path |-> RuleFile(i), kind |-> k] :
              i \in Topologies, k \in PebbleKinds }
    \cup { [op |-> "push", path |-> MIMIR_CONFIG, kind |-> k] :
              k \in PebbleKinds \cup {"Exception"} }
    \cup { [op |-> "pull", path |-> MIMIR_CONFIG, kind |-> k] : k \in PebbleKinds }
    \cup { [op |-> o, path |-> "", kind |-> "ConnectionError"] :
              o \in {"get_plan", "add_layer", "restart", "exec"} }
    \cup { [op |-> "update_endpoint", path |-> "", kind |-> "ModelError"] }

\* the remote application's databag of the s3 relation
S3Data(ak, b, e, sk) ==
    [k \in S3Fields |->
        CASE k = "access-key" -> ak [] k = "bucket" -> b
          [] k = "endpoint" -> e [] OTHER -> sk]
S3Datas ==
    { S3Data("ak1", "mimir", "http://minio:9000", ""),
      S3Data("ak1", "mimir", "http://minio:9000", "sk1"),
      S3Data("ak2", "mimir", "http://minio:9000", "sk2"),
      S3Data("ak1", "mimir", "minio:9000", "sk1") }

\* a unit before its first hook: an empty container, no s3 relation
InitUnit ==
    /\ files = NoFiles
    /\ dirs = {}
    /\ plan = NoServices
    /\ running = FALSE
    /\ status = MaintenanceStatus
    /\ workload_version = ""
    /\ alerts \in Bundles
    /\ relation = NoRelation
    /\ current_endpoints = EmptyMap
    /\ requested_bucket = ""
    /\ event = "none"
    /\ pass = FALSE
    /\ calls = << >>
    /\ raised = NoExc
    /\ settled = FALSE
    /\ repeat = FALSE
    /\ s3_provider = NoProvider

Init == can_connect = FALSE /\ InitUnit

(***************************************************************************)
(* Hooks.  r is what the handlers of the hook leave behind; ranPass tells  *)
(* whether _configure_mimir was entered.                                   *)
(***************************************************************************)
EndHook(ev, res, ranPass) ==
    \E r \in {res} :
        /\ can_connect' = r.c.can_connect
        /\ files' = r.c.files
        /\ dirs' = r.c.dirs
        /\ plan' = r.c.plan
        /\ running' = r.c.running
        /\ status' = r.c.status
        /\ workload_version' = r.c.workload_version
        /\ calls' = r.c.calls
        /\ raised' = r.exc
        /\ event' = ev
        /\ pass' = ranPass
        /\ settled' = IF ranPass
                      THEN r.exc = NoExc /\ r.c.status = ActiveStatus
                           /\ alerts' = alerts /\ relation' = relation
                      ELSE settled /\ alerts' = alerts /\ relation' = relation
                           /\ r.c.files = files /\ r.c.plan = plan
        /\ repeat' = (ranPass /\ settled /\ alerts' = alerts /\ relation' = relation)
        /\ s3_provider' = s3_provider

\* config-changed: MimirK8SOperatorCharm._on_config_changed
ConfigChanged ==
    \E f \in Failures :
        /\ UNCHANGED << alerts, relation, current_endpoints, requested_bucket >>
        /\ EndHook("config-changed", _configure_mimir(Ctx, alerts, relation, f), TRUE)

\* mimir-pebble-ready: MimirK8SOperatorCharm._on_mimir_pebble_ready
PebbleReady ==
    \E f \in Failures, out \in VersionOutputs :
        LET r1 == _set_mimir_version(Ctx, out, f) IN
        /\ UNCHANGED << alerts, relation, current_endpoints, requested_bucket >>
        /\ IF r1.exc # NoExc THEN EndHook("mimir-pebble-ready", r1, FALSE)
           ELSE EndHook("mimir-pebble-ready",
                        _configure_mimir(r1.c, alerts, relation, f), TRUE)

\* the remote-write provider's alert_rules_changed, observed by _configure_mimir
AlertRulesChanged ==
    \E f \in Failures :
        /\ UNCHANGED << alerts, relation, current_endpoints, requested_bucket >>
        /\ EndHook("alert-rules-changed", _configure_mimir(Ctx, alerts, relation, f), TRUE)

\* a stop handler that also runs the reconciliation pass
Stop_RunsPass ==
    \E f \in Failures :
        /\ UNCHANGED << alerts, relation, current_endpoints, requested_bucket >>
        /\ EndHook("stop", _configure_mimir([Ctx EXCEPT !.workload_version = ""],
                                            alerts, relation, f), TRUE)

\* stop: MimirK8SOperatorCharm._on_stop
Stop ==
    /\ UNCHANGED << alerts, relation, current_endpoints, requested_bucket >>
    /\ EndHook("stop", [c |-> [Ctx EXCEPT !.workload_version = ""], exc |-> NoExc], FALSE)

\* a hook the charm does not observe
Unobserved(ev) ==
    /\ UNCHANGED << alerts, relation, current_endpoints, requested_bucket >>
    /\ EndHook(ev, [c |-> Ctx, exc |-> NoExc], FALSE)

\* the bucket this charm requests: f"{charm.model.name}-{charm.app.name}"
OwnBucket == "model-mimir"

\* on.ready.emit / on.broken.emit of the requirer, logged with the hook's calls
Emit(c, name) == Call(c, "emit", name, "ok", "none")

\* ObjectStorageRequirer._handle_relation on context c, with the stored
\* endpoints previous_endpoints and the remote databag now d; f is the failure
\* the hook meets.  res is what the handler leaves, ranPass whether ready was
\* emitted, stored the endpoints it stores, wroteBucket whether it wrote the
\* bucket request to the databag of this application.
_handle_relation(c, previous_endpoints, d, f) ==
    LET rel == [exists |-> TRUE, app |-> TRUE, readable |-> TRUE, data |-> d]
        cur == _endpoints_from_relation_data(rel)
        changed == previous_endpoints # cur.value
    IN  IF cur.raises # "none"
        THEN [res |-> [c |-> c, exc |-> Exc(cur.raises, "")], ranPass |-> FALSE,
              stored |-> previous_endpoints, wroteBucket |-> FALSE]
        ELSE IF changed
        THEN IF DOMAIN cur.value = {}
             \* current_endpoints["bucket"] of an empty dict
             THEN [res |-> [c |-> c, exc |-> Exc("KeyError", "bucket")], ranPass |-> FALSE,
                   stored |-> cur.value, wroteBucket |-> FALSE]
             \* on.ready.emit runs _on_storage_changed
             ELSE [res |-> _configure_mimir(Emit(c, "ready"), alerts, rel, f),
                   ranPass |-> TRUE, stored |-> cur.value, wroteBucket |-> FALSE]
        ELSE [res |-> [c |-> c, exc |-> NoExc], ranPass |-> FALSE,
              stored |-> cur.value, wroteBucket |-> TRUE]

\* the hook ev of the s3 relation that runs _handle_relation
RelationHook(ev, d, f) ==
    /\ (ev # "s3-relation-created" => relation.exists)
    /\ (ev = "s3-relation-created" => ~relation.exists)
    /\ \E o \in {_handle_relation(Ctx, current_endpoints, d, f)} :
          /\ relation' = [exists |-> TRUE, app |-> TRUE, readable |-> TRUE, data |-> d]
          /\ alerts' = alerts
          /\ current_endpoints' = o.stored
          /\ requested_bucket' = IF o.wroteBucket THEN OwnBucket ELSE requested_bucket
          /\ EndHook(ev, o.res, o.ranPass)

\* the hooks of the s3 relation that run _handle_relation
RelationHooks == {"s3-relation-created", "s3-relation-joined", "s3-relation-changed"}

\* s3-relation-created, -joined and -changed
RelationEvent ==
    \E f \in Failures, d \in S3Datas, ev \in RelationHooks : RelationHook(ev, d, f)

\* remote databags that differ in the access key and the secret key alone
KeyDatas ==
    { S3Data("ak1", "mimir", "http://minio:9000", "sk1"),
      S3Data("ak2", "mimir", "http://minio:9000", "sk2"),
      S3Data("ak3", "mimir", "http://minio:9000", "sk3") }

\* s3-relation-created and -changed in which the provider sets or rotates the keys
KeysChanged ==
    \E f \in Failures, d \in KeyDatas, ev \in {"s3-relation-created", "s3-relation-changed"} :
        RelationHook(ev, d, f)

\* s3-relation-broken: ObjectStorageRequirer._handle_relation_broken emits
\* broken, which runs _on_storage_changed.  In the hook the relation is still
\* listed; whether its remote application is known and its databag readable
\* depends on the controller.  After the hook the relation is gone.
RelationBroken ==
    \E f \in Failures, app \in BOOLEAN, readable \in BOOLEAN :
        LET rel == [relation EXCEPT !.app = app, !.readable = readable] IN
        /\ relation.exists
        /\ relation' = NoRelation
        /\ requested_bucket' = ""
        /\ UNCHANGED << alerts, current_endpoints >>
        /\ EndHook("s3-relation-broken",
                   _configure_mimir(Emit(Ctx, "broken"), alerts, rel, f), TRUE)

(***************************************************************************)
(* The environment.                                                        *)
(***************************************************************************)
\* between two hooks the container becomes (cc, fs, ds, pl, run)
EnvStep(cc, fs, ds, pl, run) ==
    /\ event = "none"
    /\ can_connect' = cc
    /\ files' = fs
    /\ dirs' = ds
    /\ plan' = pl
    /\ running' = run
    /\ settled' = (settled /\ fs = files /\ ds = dirs /\ pl = plan)
    /\ UNCHANGED << status, workload_version, alerts, relation, current_endpoints,
                    requested_bucket, event, pass, calls, raised, repeat, s3_provider >>

\* a remote-write consumer publishes other rules: the relation data behind
\* remote_write_provider.alerts becomes bundle b
AlertRulesPublished ==
    \E b \in Bundles \ {alerts} :
        /\ event = "none"
        /\ alerts' = b
        /\ settled' = FALSE
        /\ UNCHANGED << can_connect, files, dirs, plan, running, status, workload_version,
                        relation, current_endpoints, requested_bucket, event, pass, calls,
                        raised, repeat, s3_provider >>

\* Pebble in the workload container becomes reachable or unreachable
Connectivity == EnvStep(~can_connect, files, dirs, plan, running)

\* the workload container is restarted: Pebble starts with an empty plan, and
\* the files outside the persistent volume are lost
ContainerRestart ==
    \E keep \in BOOLEAN :
        EnvStep(FALSE, IF keep THEN files ELSE NoFiles, IF keep THEN dirs ELSE {},
                NoServices, FALSE)

\* the configuration file is damaged behind the charm's back
ConfigFileDamaged ==
    \E text \in {EmptyText, ScalarText, MalformedText} :
        /\ MIMIR_CONFIG \in DOMAIN files
        /\ files[MIMIR_CONFIG] # text
        /\ EnvStep(can_connect, [files EXCEPT ![MIMIR_CONFIG] = text], dirs, plan, running)

\* the process of the hook exits (main(MimirK8SOperatorCharm) has returned or
\* raised): what the hook did is no longer observed; the container, the unit
\* and the stored state stay as the hook left them
HookExit ==
    /\ event # "none"
    /\ event' = "none"
    /\ pass' = FALSE
    /\ calls' = << >>
    /\ raised' = NoExc
    /\ repeat' = FALSE
    /\ UNCHANGED << can_connect, files, dirs, plan, running, status, workload_version,
                    alerts, relation, current_endpoints, requested_bucket, settled,
                    s3_provider >>

\* the unit agent runs one hook at a time, each in a process of its own
Dispatch(hook) == event = "none" /\ hook

\* the reconciliation pass under every hook that runs it without changing the
\* s3 relation, on a container that comes and goes
Next ==
    \/ Dispatch(ConfigChanged)
    \/ Dispatch(PebbleReady)
    \/ Dispatch(AlertRulesChanged)
    \/ HookExit
    \/ AlertRulesPublished
    \/ Connectivity
    \/ ContainerRestart

Spec == Init /\ [][Next]_vars

(***************************************************************************)
(* The deployment of a unit: install, config-changed, start and            *)
(* mimir-pebble-ready, in this order, on a container that is reachable     *)
(* from the start or not at all.                                           *)
(***************************************************************************)
DeployInstall == event = "none" /\ Unobserved("install")
DeployConfigChanged == event = "install" /\ ConfigChanged
DeployStart == event = "config-changed" /\ Unobserved("start")
DeployPebbleReady == event = "start" /\ PebbleReady

InitDeploy == can_connect \in BOOLEAN /\ InitUnit

NextDeploy ==
    \/ DeployInstall
    \/ DeployConfigChanged
    \/ DeployStart
    \/ DeployPebbleReady

SpecDeploy == InitDeploy /\ [][NextDeploy]_vars

(***************************************************************************)
(* The configuration file under damage: config-changed passes on a         *)
(* container whose configuration file is overwritten between two hooks.    *)
(***************************************************************************)
NextConfigFile ==
    \/ Dispatch(ConfigChanged)
    \/ HookExit
    \/ Connectivity
    \/ ConfigFileDamaged

SpecConfigFile == Init /\ [][NextConfigFile]_vars

(***************************************************************************)
(* Retried passes: config-changed hooks on a container that stays          *)
(* reachable, with the alert bundle and the s3 relation unchanged.  A hook *)
(* may meet a failing call.  Every hook process exits, and the unit agent  *)
(* keeps dispatching hooks, so that a pass in which no call fails runs     *)
(* again and again.                                                        *)
(***************************************************************************)
InitRetry == can_connect = TRUE /\ InitUnit

NextRetry ==
    \/ Dispatch(ConfigChanged)
    \/ HookExit

\* the hook that has just run is a pass in which no call raised
CleanPassRan == pass /\ \A i \in DOMAIN calls : calls[i].res # "raised"

SpecRetry ==
    /\ InitRetry /\ [][NextRetry]_vars
    /\ WF_vars(HookExit)
    /\ []<>CleanPassRan

(***************************************************************************)
(* The s3 relation: the hooks of the relation and config-changed on a unit *)
(* without remote-write consumers, whose container is reachable from the   *)
(* start or not at all.                                                    *)
(***************************************************************************)
InitStorage == can_connect \in BOOLEAN /\ InitUnit /\ alerts = << >>

NextStorage ==
    \/ Dispatch(ConfigChanged)
    \/ Dispatch(RelationEvent)
    \/ Dispatch(RelationBroken)
    \/ HookExit

SpecStorage == InitStorage /\ [][NextStorage]_vars

(***************************************************************************)
(* Every hook the charm and its requirer observe, on a unit without        *)
(* remote-write consumers whose container is reachable from the start or   *)
(* not at all.                                                             *)
(***************************************************************************)
NextEvents ==
    \/ Dispatch(ConfigChanged)
    \/ Dispatch(PebbleReady)
    \/ Dispatch(AlertRulesChanged)
    \/ Dispatch(RelationEvent)
    \/ Dispatch(RelationBroken)
    \/ Dispatch(Stop)
    \/ HookExit

SpecEvents == InitStorage /\ [][NextEvents]_vars

(***************************************************************************)
(* Key rotation: config-changed and the hooks of the s3 relation, whose    *)
(* remote data is complete and changes in the two keys only.               *)
(***************************************************************************)
NextKeys ==
    \/ Dispatch(ConfigChanged)
    \/ Dispatch(KeysChanged)
    \/ HookExit

SpecKeys == InitStorage /\ [][NextKeys]_vars

(***************************************************************************)
(* Passes from any container state: config-changed passes and the hooks of *)
(* the s3 relation in which the provider publishes its bucket, with        *)
(* bundles published between hooks, on a container that comes and goes    *)
(* and is restarted with or without the files it held.                     *)
(***************************************************************************)
\* s3-relation-created and -changed with the provider's bucket in the databag
BucketPublished ==
    \E f \in Failures, ev \in {"s3-relation-created", "s3-relation-changed"} :
        RelationHook(ev, S3Data("ak1", "mimir", "http://minio:9000", "sk1"), f)

NextConverge ==
    \/ Dispatch(ConfigChanged)
    \/ Dispatch(BucketPublished)
    \/ HookExit
    \/ AlertRulesPublished
    \/ Connectivity
    \/ ContainerRestart

SpecConverge == Init /\ [][NextConverge]_vars

(***************************************************************************)
(* An object-storage provider with up to MaxRelations s3 relations:        *)
(* relations are created, the requirer of a relation publishes the bucket  *)
(* it requests, and the provider's charm calls update_endpoints.           *)
(***************************************************************************)
\* the bucket the requirer of relation i requests
BucketOf(i) == "model-app" \o ToString(i)
\* the endpoint data a provider's charm passes to update_endpoints
ProviderDatas ==
    { [k \in {"access-key", "endpoint", "secret-key"} |->
          CASE k = "access-key" -> a [] k = "endpoint" -> "http://s3proxy:80"
            [] k = "secret-key" -> "sk1"] : a \in {"ak1", "ak2", "ak3"} }

\* the provider's charm is another unit: what it does leaves this unit alone
ProviderFrame ==
    UNCHANGED << can_connect, files, dirs, plan, running, status, workload_version,
                 alerts, relation, current_endpoints, requested_bucket, event, pass,
                 calls, raised, settled, repeat >>

\* a relation of the provider's endpoint is created, with empty databags
ProviderRelationCreated ==
    \E i \in RelIds \ DOMAIN s3_provider.relations :
        /\ ProviderFrame
        /\ s3_provider' = [relations |-> (i :> [remote |-> "", app |-> NoDatabag])
                                        @@ s3_provider.relations,
                        update |-> NoUpdate]

\* the requirer of a relation writes its bucket to its application databag
BucketRequested ==
    \E i \in DOMAIN s3_provider.relations :
        /\ ProviderFrame
        /\ s3_provider.relations[i].remote = ""
        /\ s3_provider' = [relations |-> [s3_provider.relations EXCEPT
                                             ![i].remote = BucketOf(i)],
                           update |-> NoUpdate]

\* the provider's charm calls update_endpoints(data) or
\* update_endpoints(data, relation_id)
UpdateEndpoints ==
    \E data \in ProviderDatas,
       relation_id \in {NoRelationId} \cup { RelationId(i) : i \in RelIds } :
        /\ ProviderFrame
        /\ s3_provider' = [relations |-> update_endpoints(s3_provider.relations, data,
                                                       relation_id),
                        update |-> [called |-> TRUE, relation_id |-> relation_id,
                                    data |-> data]]

NextProvider ==
    \/ ProviderRelationCreated
    \/ BucketRequested
    \/ UpdateEndpoints

InitProvider == can_connect = FALSE /\ InitUnit /\ alerts = << >>

SpecProvider == InitProvider /\ [][NextProvider]_vars

(***************************************************************************)
(* Vocabulary of the properties.                                           *)
(***************************************************************************)
CallsOf(cs) == { cs[i] : i \in DOMAIN cs }
\* the hook issued the call (op, path), however it ended
Issued(op, path) == \E k \in CallsOf(calls) : k.op = op /\ k.path = path
\* the call (op, path) of the hook raised
Failed(op, path) ==
    \E k \in CallsOf(calls) : k.op = op /\ k.path = path /\ k.res = "raised"
\* no call of cs raised
Clean(cs) == \A k \in CallsOf(cs) : k.res # "raised"

OnRuleTree(k) == k.op \in {"remove_path", "make_dir", "push"} /\ Under(k.path, RULES_DIR)
OnConfigFile(k) == k.op \in {"pull", "push"} /\ k.path = MIMIR_CONFIG
OnLayer(k) == k.op \in {"get_plan", "add_layer"}

WaitingForPebble == [name |-> "waiting", message |-> "Waiting for Pebble ready"]
PushAlertsMessage == "Failed to push updated alert files; see debug logs"

\* the plan the unit tests expect after a first pass
ExpectedPlan ==
    [n \in {"mimir"} |->
        [override |-> "replace",
         summary |-> "mimir daemon",
         command |-> "/bin/mimir --config.file=/etc/mimir/mimir-config.yaml",
         startup |-> "enabled"]]

\* the configuration the builder yields for the relation of this state
DesiredConfig == _build_mimir_config(bucket_info(relation).value)

(***************************************************************************)
(* C1.  Whole-pass idempotence: a pass that runs right after a pass that   *)
(* ended Active, with the alert bundle, the s3 relation and the container  *)
(* unchanged in between, writes and removes nothing in the container and   *)
(* restarts nothing.  The code violates it: _set_alerts removes and        *)
(* rewrites the rule tree in every pass (see C2).                          *)
(***************************************************************************)
C1_SecondPassIsQuiet ==
    (pass /\ repeat) =>
        \A k \in CallsOf(calls) : k.op \notin {"remove_path", "make_dir", "push", "restart"}

(***************************************************************************)
(* C2.  Rule-sync short-circuit: when the synchroniser runs twice in a row *)
(* with the same bundle, the second run issues no remove_path, make_dir or *)
(* push on the rule directory.  The code violates it: it keeps no          *)
(* fingerprint and rewrites the tree unconditionally.                      *)
(***************************************************************************)
C2_RuleSyncShortCircuit ==
    (pass /\ repeat /\ can_connect) => \A k \in CallsOf(calls) : ~OnRuleTree(k)

(***************************************************************************)
(* C3.  Not-ready short-circuit: a pass on a container that cannot be      *)
(* connected to sets Waiting("Waiting for Pebble ready"), issues no        *)
(* collaborator call, raises nothing and leaves files, directories, plan,  *)
(* service and workload version as they were.                              *)
(***************************************************************************)
C3_NotReadyShortCircuit ==
    [][(pass' /\ ~can_connect') =>
          /\ status' = WaitingForPebble
          /\ calls' = << >>
          /\ raised' = NoExc
          /\ UNCHANGED << files, dirs, plan, running, workload_version >>]_vars

C3_Witness ==
    pass /\ ~can_connect /\ event = "mimir-pebble-ready" /\ status = WaitingForPebble

(***************************************************************************)
(* C4.  A failing push of the configuration file, whatever it raises, ends *)
(* the pass Blocked with the text of the error; the pass returns, issues   *)
(* no restart and does not republish the endpoint.                         *)
(***************************************************************************)
C4_ConfigPushFailureIsFatal ==
    (pass /\ Failed("push", MIMIR_CONFIG)) =>
        /\ status.name = "blocked"
        /\ status.message \in { ErrorText(k) : k \in PebbleKinds \cup {"Exception"} }
        /\ raised = NoExc
        /\ \A k \in CallsOf(calls) : k.op \notin {"restart", "update_endpoint"}

C4_Witness ==
    pass /\ Failed("push", MIMIR_CONFIG) /\ status = BlockedStatus(ErrorText("Exception"))

(***************************************************************************)
(* C5.  A failure removing the rule directory or writing a rule file ends  *)
(* the pass Blocked and stops it: no layer call, no configuration call, no *)
(* restart, no endpoint update.  The code violates the Blocked part for a  *)
(* rule push that raises a Pebble error other than ProtocolError or        *)
(* PathError: the exception leaves the handler and the status stays.       *)
(***************************************************************************)
C5_AlertSyncFailureAborts ==
    (pass /\ (Failed("remove_path", RULES_DIR)
              \/ \E i \in Topologies : Failed("push", RuleFile(i)))) =>
        /\ status.name = "blocked"
        /\ \A k \in CallsOf(calls) :
              ~OnLayer(k) /\ ~OnConfigFile(k) /\ k.op \notin {"restart", "update_endpoint"}

(***************************************************************************)
(* C6.  Whenever the alert synchronisation fails with a Pebble error, the  *)
(* status after the pass is Blocked("Failed to push updated alert files;   *)
(* see debug logs").  The code violates it (see C5, and a failing          *)
(* remove_path is reported with another message).                          *)
(***************************************************************************)
C6_AlertSyncFailureMessage ==
    (pass /\ \E k \in CallsOf(calls) : OnRuleTree(k) /\ k.res = "raised") =>
        status = BlockedStatus(PushAlertsMessage)

(***************************************************************************)
(* C7.  First-pass convergence.  A pass that meets no failure on a         *)
(* reachable container with no configuration file and an empty plan writes *)
(* the full configuration, adds the layer so that the plan is the single   *)
(* mimir service, restarts the service so that it runs, and ends Active;   *)
(* and the pebble-ready pass that ends the sequence install,               *)
(* config-changed, start, mimir-pebble-ready leaves the same.              *)
(***************************************************************************)
Converged(fs, pl, run, st) ==
    /\ MIMIR_CONFIG \in DOMAIN fs
    /\ fs[MIMIR_CONFIG] = safe_dump(DesiredConfig)
    /\ safe_load(fs[MIMIR_CONFIG]) = [raises |-> "none", value |-> PyDict(DesiredConfig)]
    /\ pl = ExpectedPlan
    /\ run
    /\ st = ActiveStatus

C7_FirstPassConverges ==
    [][/\ (/\ pass' /\ can_connect /\ Clean(calls') /\ raised' = NoExc
           /\ plan = NoServices /\ MIMIR_CONFIG \notin DOMAIN files)
          => /\ Converged(files', plan', running', status')
             /\ \E k \in CallsOf(calls') : k.op = "push" /\ k.path = MIMIR_CONFIG
             /\ \E k \in CallsOf(calls') : k.op = "add_layer"
             /\ \E k \in CallsOf(calls') : k.op = "restart"
       /\ (/\ event = "start" /\ status = ActiveStatus
           /\ pass' /\ can_connect /\ Clean(calls') /\ raised' = NoExc)
          => Converged(files', plan', running', status')]_vars

C7_Witness ==
    /\ event = "mimir-pebble-ready" /\ pass /\ can_connect /\ Clean(calls)
    /\ Converged(files, plan, running, status)

(***************************************************************************)
(* C8.  Step order within a pass.  As claimed: alert synchronisation, then *)
(* configuration compare/write, then layer compare/apply, then restart.    *)
(* The code runs the layer step before the configuration step; the order   *)
(* that holds is alert synchronisation, layer, configuration, restart,     *)
(* endpoint update.                                                        *)
(***************************************************************************)
\* the step a call belongs to, numbered by the position of the step
StepOf(k, alertsAt, configAt, layerAt, restartAt) ==
    CASE OnRuleTree(k) -> alertsAt
      [] OnConfigFile(k) -> configAt
      [] OnLayer(k) -> layerAt
      [] k.op = "restart" -> restartAt
      [] k.op = "update_endpoint" -> restartAt + 1
      [] OTHER -> 0

C8_ClaimedOrder ==
    pass => \A i, j \in DOMAIN calls :
                i < j => StepOf(calls[i], 1, 2, 3, 4) <= StepOf(calls[j], 1, 2, 3, 4)

C8_StepOrder ==
    pass => \A i, j \in DOMAIN calls :
                i < j => StepOf(calls[i], 1, 3, 2, 4) <= StepOf(calls[j], 1, 3, 2, 4)

C8_Witness ==
    /\ pass
    /\ Issued("remove_path", RULES_DIR)
    /\ Issued("add_layer", "")
    /\ Issued("push", MIMIR_CONFIG)
    /\ Issued("restart", "")
    /\ Issued("update_endpoint", "")

(***************************************************************************)
(* C9.  No collaborator failure escapes a pass: the handler returns, and   *)
(* when a call other than the tolerated pull of the configuration file     *)
(* failed, the status is Waiting or Blocked.  The code violates it:        *)
(* get_plan, add_layer, restart and update_endpoint are called outside any *)
(* handler, and the rule push is guarded for two error classes only.       *)
(***************************************************************************)
C9_NoFailureEscapes ==
    pass =>
        /\ raised = NoExc
        /\ (\E k \in CallsOf(calls) : k.res = "raised" /\ k.op # "pull")
              => status.name \in {"waiting", "blocked"}

(***************************************************************************)
(* C10.  A failing add_layer ends the pass Blocked with the text of the    *)
(* error, and no restart is attempted.  The code violates it: the          *)
(* exception of add_layer leaves the handler (see C9) and the status is    *)
(* not set.                                                                *)
(***************************************************************************)
C10_AddLayerFailureIsFatal ==
    (pass /\ Failed("add_layer", "")) =>
        /\ status = BlockedStatus(ErrorText("ConnectionError"))
        /\ ~Issued("restart", "")

(***************************************************************************)
(* C12.  An absent or unreadable configuration file is no error: a pass in *)
(* which the pull of the file raises PathError (the file is absent) or     *)
(* ProtocolError goes on to push the desired configuration right after the *)
(* pull; when the push succeeds the file holds the desired configuration   *)
(* and a restart is issued, and when nothing else fails the pass ends      *)
(* Active with the service running.                                        *)
(***************************************************************************)
PullTolerated(k) ==
    k.op = "pull" /\ k.path = MIMIR_CONFIG /\ k.kind \in {"PathError", "ProtocolError"}

C12_UnreadableConfigIsNoError ==
    pass =>
        \A i \in DOMAIN calls :
            PullTolerated(calls[i]) =>
                /\ i < Len(calls)
                /\ calls[i + 1].op = "push" /\ calls[i + 1].path = MIMIR_CONFIG
                /\ calls[i + 1].res = "ok" =>
                      /\ files[MIMIR_CONFIG] = safe_dump(DesiredConfig)
                      /\ Issued("restart", "")
                /\ (\A j \in DOMAIN calls : j > i => calls[j].res = "ok") =>
                      /\ raised = NoExc /\ status = ActiveStatus /\ running

C12_Witness ==
    /\ pass
    /\ \E k \in CallsOf(calls) : PullTolerated(k) /\ k.kind = "ProtocolError"
    /\ Issued("restart", "")
    /\ status = ActiveStatus

(***************************************************************************)
(* C11.  A configuration file that exists but cannot be parsed counts as   *)
(* no prior state: a pass that finds such a file and meets no failing call *)
(* returns, writes the desired configuration, restarts the service and     *)
(* ends Active.  The code violates it: the YAMLError of yaml.safe_load is  *)
(* not among the exceptions the reader handles, so it reaches the handler  *)
(* of _mimir_config_changed and the pass ends Blocked, in every pass until *)
(* the file is replaced by other means.                                    *)
(***************************************************************************)
Unparseable(fs) ==
    MIMIR_CONFIG \in DOMAIN fs /\ safe_load(fs[MIMIR_CONFIG]).raises # "none"

C11_MalformedConfigIsNoPriorState ==
    [][(pass' /\ can_connect /\ Unparseable(files) /\ Clean(calls')) =>
          /\ raised' = NoExc
          /\ status' = ActiveStatus
          /\ \E k \in CallsOf(calls') : k.op = "push" /\ k.path = MIMIR_CONFIG
          /\ \E k \in CallsOf(calls') : k.op = "restart"
          /\ files'[MIMIR_CONFIG] = safe_dump(DesiredConfig)]_vars

(***************************************************************************)
(* C13.  Re-entrancy from partial failure: once a pass has written the     *)
(* configuration file or applied the layer and has not completed a         *)
(* restart, the passes that follow eventually restart the service.  The    *)
(* code violates it: the need to restart is known only inside the pass     *)
(* that wrote; a later pass finds the file and the plan as desired and     *)
(* issues no restart.                                                      *)
(***************************************************************************)
\* the hook wrote the configuration file or applied the layer
Wrote ==
    \E k \in CallsOf(calls) :
        /\ k.res = "ok"
        /\ (k.op = "push" /\ k.path = MIMIR_CONFIG) \/ k.op = "add_layer"
\* the hook completed a restart
Restarted == \E k \in CallsOf(calls) : k.op = "restart" /\ k.res = "ok"

C13_RestartEventuallyIssued == (pass /\ Wrote /\ ~Restarted) ~> (pass /\ Restarted)

(***************************************************************************)
(* C14.  Storage binding restarts the service exactly once.  On a unit     *)
(* converged with the filesystem backend, a hook of the s3 relation that   *)
(* finds the remote data complete emits ready; the pass it runs, when no   *)
(* call fails, leaves a configuration file whose common.storage.backend is *)
(* "s3", issues exactly one restart and ends Active.  A pass that follows  *)
(* a pass that ended Active, with the same complete relation data and      *)
(* nothing changed in between, issues no restart.                          *)
(***************************************************************************)
Emitted(cs, name) == \E k \in CallsOf(cs) : k.op = "emit" /\ k.path = name
Restarts(cs) == Cardinality({ i \in DOMAIN cs : cs[i].op = "restart" })
Bound(rel) == DOMAIN bucket_info(rel).value # {}
\* the value of key in the configuration file of fs
FileValue(fs, key) == safe_load(fs[MIMIR_CONFIG]).value.items[key]

C14_StorageBindingRestartsOnce ==
    [][/\ (/\ pass' /\ Emitted(calls', "ready") /\ Clean(calls')
           /\ can_connect /\ ~Bound(relation)
           /\ Converged(files, plan, running, status))
          => /\ raised' = NoExc
             /\ status' = ActiveStatus
             /\ FileValue(files', "common.storage.backend") = PyStr("s3")
             /\ Restarts(calls') = 1
             /\ running'
       /\ (pass' /\ repeat' /\ Clean(calls') /\ Bound(relation'))
          => Restarts(calls') = 0]_vars

C14_Witness ==
    /\ pass /\ Emitted(calls, "ready") /\ Clean(calls)
    /\ ~Issued("add_layer", "")
    /\ \E k \in CallsOf(calls) : k.op = "pull" /\ k.res = "ok"
    /\ Issued("push", MIMIR_CONFIG)
    /\ Restarts(calls) = 1
    /\ FileValue(files, "common.storage.backend") = PyStr("s3")
    /\ status = ActiveStatus

(***************************************************************************)
(* C15.  Backend selection.  The configuration built for the s3 relation   *)
(* has backend "s3" exactly when bucket_info is non-empty; then the bucket *)
(* and the two keys are those of the binding and the endpoint is the       *)
(* binding's endpoint without a leading "http://" (an endpoint without     *)
(* that prefix is copied as it is); otherwise the backend is "filesystem"  *)
(* with directory /mimir/data.  Outside common.storage the configuration   *)
(* is the same in both cases.  A pass of a hook that leaves the relation   *)
(* in place and pushes the file leaves this configuration in the file.     *)
(***************************************************************************)
HasHttp(e) == Len(e) >= 7 /\ SubSeq(e, 1, 7) = "http://"
IsStorageKey(k) == Len(k) >= 15 /\ SubSeq(k, 1, 15) = "common.storage."
Elsewhere(cfg) == [k \in { q \in DOMAIN cfg : ~IsStorageKey(q) } |-> cfg[k]]

BackendSelected(s3, cfg) ==
    /\ cfg["common.storage.backend"] = PyStr("s3") <=> DOMAIN s3 # {}
    /\ DOMAIN s3 # {} =>
          /\ cfg["common.storage.s3.bucket_name"] = PyStr(s3["bucket"])
          /\ cfg["common.storage.s3.access_key_id"] = PyStr(s3["access-key"])
          /\ cfg["common.storage.s3.secret_access_key"] = PyStr(s3["secret-key"])
          /\ LET x == cfg["common.storage.s3.endpoint"] IN
             /\ x.t = "str"
             /\ IF HasHttp(s3["endpoint"]) THEN "http://" \o x.v = s3["endpoint"]
                ELSE x.v = s3["endpoint"]
    /\ DOMAIN s3 = {} =>
          /\ cfg["common.storage.backend"] = PyStr("filesystem")
          /\ cfg["common.storage.filesystem.dir"] = PyStr("/mimir/data")
          /\ \A k \in DOMAIN cfg : IsStorageKey(k) =>
                k \in {"common.storage.backend", "common.storage.filesystem.dir"}
    /\ Elsewhere(cfg) = Elsewhere(_build_mimir_config(EmptyMap))
    /\ Elsewhere(cfg) = Elsewhere(_build_mimir_config(S3Data("a", "b", "e", "s")))

C15_BackendSelection ==
    /\ BackendSelected(bucket_info(relation).value,
                       _build_mimir_config(bucket_info(relation).value))
    /\ (/\ pass /\ event # "s3-relation-broken"
        /\ \E k \in CallsOf(calls) : k.op = "push" /\ k.path = MIMIR_CONFIG /\ k.res = "ok")
       => /\ safe_load(files[MIMIR_CONFIG]).raises = "none"
          /\ safe_load(files[MIMIR_CONFIG]).value.py = "dict"
          /\ BackendSelected(bucket_info(relation).value,
                             safe_load(files[MIMIR_CONFIG]).value.items)

C15_Witness ==
    /\ pass /\ Emitted(calls, "ready")
    /\ \E k \in CallsOf(calls) : k.op = "push" /\ k.path = MIMIR_CONFIG /\ k.res = "ok"
    /\ relation.data["endpoint"] = "http://minio:9000"
    /\ FileValue(files, "common.storage.s3.endpoint") = PyStr("minio:9000")
    /\ FileValue(files, "common.storage.s3.secret_access_key") = PyStr("sk2")

(***************************************************************************)
(* C16.  The remote-write endpoint is republished at the end of every pass *)
(* that reaches Active, with or without a restart: a pass that returns     *)
(* with status Active has update_endpoint as its last call, and the call   *)
(* returned.  A pass that ends Waiting or Blocked has republished nothing. *)
(***************************************************************************)
Republished(k) == k.op = "update_endpoint" /\ k.res = "ok"

C16_EndpointRepublishedOnActive ==
    /\ (pass /\ raised = NoExc /\ status = ActiveStatus) =>
          /\ calls # << >>
          /\ Republished(calls[Len(calls)])
    /\ (pass /\ status.name \in {"waiting", "blocked"}) =>
          \A k \in CallsOf(calls) : ~Republished(k)

C16_Witness ==
    /\ pass /\ raised = NoExc /\ status = ActiveStatus
    /\ ~Issued("restart", "")
    /\ Republished(calls[Len(calls)])

(***************************************************************************)
(* C17.  Every Blocked status a pass sets carries one of the two fixed     *)
(* alert-synchronisation messages or, when the push of the configuration   *)
(* file failed, the text of that error; no other reason is set.  The code  *)
(* violates it: an error of the configuration read that the reader does    *)
(* not handle (see C11) also ends the pass Blocked, with the text of the   *)
(* read error and without any write having been attempted.                 *)
(***************************************************************************)
RemoveAlertsMessage == "Failed to remove alerts directory; see debug logs"

C17_BlockedReasons ==
    (pass /\ raised = NoExc /\ status.name = "blocked") =>
        \/ status.message \in {RemoveAlertsMessage, PushAlertsMessage}
        \/ \E k \in CallsOf(calls) :
              /\ k.op = "push" /\ k.path = MIMIR_CONFIG /\ k.res = "raised"
              /\ status.message = ErrorText(k.kind)

(***************************************************************************)
(* C19.  A failing version query is not fatal: whatever the version        *)
(* command does, the pebble-ready hook runs the reconciliation pass, and   *)
(* when the command could not be executed the workload version stays as    *)
(* it was.  The code violates it: the exception of exec leaves             *)
(* _mimir_version and the hook before _configure_mimir is called.          *)
(***************************************************************************)
C19_VersionQueryFailureIsNonFatal ==
    [][event' = "mimir-pebble-ready" =>
          /\ pass'
          /\ (\E k \in CallsOf(calls') : k.op = "exec" /\ k.res = "raised") =>
                /\ workload_version' = workload_version
                /\ raised' = NoExc]_vars

(***************************************************************************)
(* C20.  Which events run a reconciliation pass.  As claimed: each of      *)
(* config-changed, storage ready, storage broken, alert rules changed,     *)
(* pebble-ready and stop runs _configure_mimir from the reachability       *)
(* check.  What holds: config-changed, alert rules changed and the ready   *)
(* and broken events of the requirer run it; pebble-ready runs it unless   *)
(* the version command raised (see C19); stop runs no pass, it clears the  *)
(* workload version and nothing else.  A pass starts at the reachability   *)
(* check: on an unreachable container it sets Waiting and calls nothing,   *)
(* on a reachable one its first call removes the rule directory.           *)
(***************************************************************************)
\* the calls of the hook that belong to the pass
PassCalls == SelectSeq(calls, LAMBDA k : k.op \notin {"emit", "exec"})

FromReachabilityCheck ==
    pass =>
        IF can_connect
        THEN /\ PassCalls # << >>
             /\ PassCalls[1].op = "remove_path" /\ PassCalls[1].path = RULES_DIR
        ELSE /\ PassCalls = << >>
             /\ status = WaitingForPebble

C20_EveryEventRunsPass ==
    /\ event \in {"config-changed", "alert-rules-changed", "mimir-pebble-ready", "stop"}
          => pass
    /\ (Emitted(calls, "ready") \/ Emitted(calls, "broken")) => pass
    /\ FromReachabilityCheck

C20_EventsThatRunPass ==
    /\ event \in {"config-changed", "alert-rules-changed"} => pass
    /\ (Emitted(calls, "ready") \/ Emitted(calls, "broken")) => pass
    /\ event = "mimir-pebble-ready" => (pass <=> ~Failed("exec", ""))
    /\ event = "stop" => ~pass /\ calls = << >> /\ workload_version = ""
    /\ FromReachabilityCheck

C20_Witness ==
    /\ event = "stop" /\ ~pass
    /\ status = ActiveStatus /\ running
    /\ Bound(relation)

(***************************************************************************)
(* C18.  The status does not depend on the keys.  As claimed: two runs of  *)
(* the same events that differ only in the access key and the secret key   *)
(* of the s3 relation have the same status after every pass.  The code     *)
(* compares the built configuration with the file it wrote before, so that *)
(* whether a pass pushes (and can fail pushing) depends on whether the     *)
(* keys are those of the file: after the same history, a pass with one key *)
(* pair ends Active and a pass with another ends Blocked.  What holds: the *)
(* status depends on the keys only through their equalities.  When the     *)
(* keys of one run are those of the other under a one-to-one renaming, in  *)
(* the relation, in the stored endpoints and in the configuration file,    *)
(* every hook leaves the same status and the same exception in both runs,  *)
(* and leaves the two runs related in the same way; a failing push of the  *)
(* configuration included.                                                 *)
(***************************************************************************)
KeyFields == {"access-key", "secret-key"}
KeyLines == {"common.storage.s3.access_key_id", "common.storage.s3.secret_access_key"}

\* a one-to-one renaming of the keys
Renamed(v) ==
    CASE v = "ak1" -> "ak2" [] v = "ak2" -> "ak3" [] v = "ak3" -> "ak1"
      [] v = "sk1" -> "sk2" [] v = "sk2" -> "sk3" [] v = "sk3" -> "sk1"
      [] OTHER -> v
RenamedData(d) == [k \in DOMAIN d |-> IF k \in KeyFields THEN Renamed(d[k]) ELSE d[k]]
RenamedText(text) ==
    [i \in 1..Len(text) |->
        IF text[i].key \in KeyLines THEN [text[i] EXCEPT !.chars = Renamed(@)] ELSE text[i]]
RenamedCtx(c) == [c EXCEPT !.files = [p \in DOMAIN c.files |-> RenamedText(c.files[p])]]
RenamedRel(r) == [r EXCEPT !.data = RenamedData(@)]
\* the result of a handler in the renamed run, given its result in this run
RenamedRes(r) == [r EXCEPT !.c = RenamedCtx(@)]

RuleStorageKey == "ruler_storage.local.directory"
\* the other keys of the configuration whose value is a directory
DirKeys ==
    {"common.storage.filesystem.dir", "blocks_storage.bucket_store.sync_dir",
     "blocks_storage.tsdb.dir", "compactor.data_dir"}
Overlap(a, b) == Under(a, b) \/ Under(b, a)
ConfigPushed ==
    \E k \in CallsOf(calls) : k.op = "push" /\ k.path = MIMIR_CONFIG /\ k.res = "ok"

C21_NoOverlapClaimed ==
    pass =>
        \A k \in CallsOf(calls) :
            (k.op \in {"make_dir", "push"} /\ OnRuleTree(k) /\ k.res = "ok") =>
                ~Overlap(DesiredConfig[RuleStorageKey].v, k.path)

C21_RuleStorageHoldsTheRules ==
    /\ DesiredConfig[RuleStorageKey] = PyStr("/mimir/rules")
    /\ Under(tenant_dir, DesiredConfig[RuleStorageKey].v)
    /\ tenant_dir # DesiredConfig[RuleStorageKey].v
    /\ \A k \in DirKeys \cap DOMAIN DesiredConfig :
          ~Overlap(DesiredConfig[k].v, DesiredConfig[RuleStorageKey].v)
    /\ (pass /\ ConfigPushed) =>
          /\ FileValue(files, RuleStorageKey) = PyStr("/mimir/rules")
          /\ \A k \in CallsOf(calls) :
                OnRuleTree(k) => Under(k.path, FileValue(files, RuleStorageKey).v)
          /\ \A k \in DirKeys :
                k \in DOMAIN safe_load(files[MIMIR_CONFIG]).value.items =>
                    ~Overlap(FileValue(files, k).v, FileValue(files, RuleStorageKey).v)

C21_Witness ==
    /\ pass /\ ConfigPushed /\ Bound(relation)
    /\ \E k \in CallsOf(calls) : k.op = "make_dir" /\ k.path = tenant_dir /\ k.res = "ok"
    /\ tenant_dir \in dirs
    /\ FileValue(files, RuleStorageKey) = PyStr(RULES_DIR)

(***************************************************************************)
(* C22.  bucket_info is total: for every view a hook can have of the s3    *)
(* relation it returns, without raising, either all four fields non-empty  *)
(* or the empty mapping, and it returns the empty mapping when there is no *)
(* relation, when the remote application is unknown, when the remote data  *)
(* cannot be read and when a field is empty.  The code violates it: with   *)
(* the remote application unknown, `not relation.app and not               *)
(* relation.app.name` reads .name of None and raises AttributeError, which *)
(* leaves the pass of the relation-broken hook.                            *)
(***************************************************************************)
\* the views of the relation of this state that a hook can have
RelationViews ==
    { [relation EXCEPT !.app = app, !.readable = readable] :
        app \in BOOLEAN, readable \in BOOLEAN }
Complete(m) == DOMAIN m = S3Fields /\ \A k \in S3Fields : m[k] # ""

C22_BucketInfoTotal ==
    /\ \A rel \in RelationViews :
          /\ bucket_info(rel).raises = "none"
          /\ bucket_info(rel).value = EmptyMap \/ Complete(bucket_info(rel).value)
          /\ (~rel.exists \/ ~rel.app \/ ~rel.readable \/ ~Complete(rel.data))
                => bucket_info(rel).value = EmptyMap
    /\ pass => raised.type # "AttributeError"

(***************************************************************************)
(* C23.  The desired configuration is a function of the binding alone:     *)
(* from every state, whatever the alert bundle, the container, the status  *)
(* and the hooks that ran before, a pass that pushes the configuration     *)
(* file pushes the text that the binding alone determines, and this text   *)
(* parses back to the configuration built for the binding.                 *)
(***************************************************************************)
PushedConfig(cs) ==
    \E k \in CallsOf(cs) : k.op = "push" /\ k.path = MIMIR_CONFIG /\ k.res = "ok"

C24_RestartCondition ==
    [][(pass' /\ can_connect' /\ Clean(calls') /\ raised' = NoExc) =>
          /\ Restarts(calls') >= 1 <=>
                \/ \E k \in CallsOf(calls') : k.op = "add_layer"
                \/ PushedConfig(calls')
          /\ Restarts(calls') <= 1
          /\ Converged(files, plan, running, status) =>
                /\ Restarts(calls') = 0
                /\ \E k \in CallsOf(calls') : k.op = "remove_path" /\ k.path = RULES_DIR
                /\ \A i \in DOMAIN alerts' :
                      /\ \E k \in CallsOf(calls') : k.op = "push" /\ k.path = RuleFile(i)
                      /\ files'[RuleFile(i)] = safe_dump(RuleDoc(alerts'[i]))]_vars

C24_Witness ==
    /\ pass /\ can_connect /\ Clean(calls) /\ raised = NoExc
    /\ ~repeat
    /\ \E k \in CallsOf(calls) : k.op = "pull" /\ k.res = "ok"
    /\ ~PushedConfig(calls)
    /\ ~Issued("add_layer", "")
    /\ \E i \in Topologies : Issued("push", RuleFile(i))
    /\ Restarts(calls) = 0
    /\ status = ActiveStatus

(***************************************************************************)
(* C25.  Change detection is stable after a write.  When a pass has ended  *)
(* Active, the configuration file in the container parses to a dict equal  *)
(* to the configuration built for the binding, and the services of the     *)
(* plan equal those of the layer.  A pass that follows an Active one with  *)
(* the binding, the bundle and the container unchanged, and in which no    *)
(* call fails, pushes no configuration, adds no layer and restarts nothing.*)
(***************************************************************************)
C25_StableAfterWrite ==
    /\ (pass /\ raised = NoExc /\ status = ActiveStatus) =>
          /\ MIMIR_CONFIG \in DOMAIN files
          /\ safe_load(files[MIMIR_CONFIG]) =
                [raises |-> "none", value |-> PyDict(DesiredConfig)]
          /\ plan = _pebble_layer
    /\ (pass /\ repeat /\ Clean(calls)) =>
          /\ ~PushedConfig(calls)
          /\ ~\E k \in CallsOf(calls) : k.op = "add_layer"
          /\ Restarts(calls) = 0
          /\ status = ActiveStatus

C25_Witness ==
    /\ pass /\ repeat /\ Clean(calls) /\ raised = NoExc
    /\ Bound(relation)
    /\ \E k \in CallsOf(calls) : k.op = "pull" /\ k.path = MIMIR_CONFIG /\ k.res = "ok"
    /\ Issued("get_plan", "")
    /\ ~PushedConfig(calls)
    /\ safe_load(files[MIMIR_CONFIG]).value = PyDict(DesiredConfig)
    /\ status = ActiveStatus

(***************************************************************************)
(* C26.  Rule-tree postcondition.  When the alert synchronisation of a     *)
(* pass has completed without a failing call, the tenant directory exists  *)
(* and the files under the rules directory are exactly the rule files of   *)
(* the identifiers of the current bundle, each holding the dump of its     *)
(* rules; a rule file that was there before the pass and whose identifier  *)
(* is not in the current bundle is gone.                                   *)
(***************************************************************************)
\* the alert synchronisation of the hook whose calls are cs ran to its end
\* for bundle b: every call on the rule tree was made and none raised
AlertsSynchronised(cs, b) ==
    /\ \E k \in CallsOf(cs) : k.op = "remove_path" /\ k.path = RULES_DIR
    /\ \E k \in CallsOf(cs) : k.op = "make_dir" /\ k.path = tenant_dir
    /\ \A i \in DOMAIN b : \E k \in CallsOf(cs) : k.op = "push" /\ k.path = RuleFile(i)
    /\ \A k \in CallsOf(cs) : OnRuleTree(k) => k.res = "ok"

\* the files of fs under the rules directory
RuleTree(fs) == { p \in DOMAIN fs : Under(p, RULES_DIR) }

C26_RuleTreePostcondition ==
    [][(pass' /\ AlertsSynchronised(calls', alerts')) =>
          /\ tenant_dir \in dirs'
          /\ RuleTree(files') = { RuleFile(i) : i \in DOMAIN alerts' }
          /\ \A i \in DOMAIN alerts' : files'[RuleFile(i)] = safe_dump(RuleDoc(alerts'[i]))
          /\ \A p \in RuleTree(files) :
                p \notin { RuleFile(i) : i \in DOMAIN alerts' } => p \notin DOMAIN files']_vars

C26_Witness ==
    /\ pass /\ AlertsSynchronised(calls, alerts)
    /\ alerts # << >>
    /\ tenant_dir \in dirs
    /\ RuleTree(files) = { RuleFile(i) : i \in DOMAIN alerts }

(***************************************************************************)
(* C27.  Active implies converged.  When a pass has returned and left the  *)
(* status Active, the configuration file in the container parses to the    *)
(* configuration built for the current binding, the plan holds the mimir   *)
(* service of the layer, and the rule tree holds exactly the rule files of *)
(* the current bundle.  This holds whatever the container held when the    *)
(* pass began, in particular when both the plan and the configuration file *)
(* differed from what is desired.                                          *)
(***************************************************************************)
C27_ActiveImpliesConverged ==
    (pass /\ raised = NoExc /\ status = ActiveStatus) =>
        /\ MIMIR_CONFIG \in DOMAIN files
        /\ safe_load(files[MIMIR_CONFIG]) =
              [raises |-> "none", value |-> PyDict(DesiredConfig)]
        /\ _name \in DOMAIN plan /\ plan[_name] = _pebble_layer[_name]
        /\ tenant_dir \in dirs
        /\ RuleTree(files) = { RuleFile(i) : i \in DOMAIN alerts }
        /\ \A i \in DOMAIN alerts : files[RuleFile(i)] = safe_dump(RuleDoc(alerts[i]))

\* a pass has ended Active that began with a plan without the service and a
\* configuration file other than the desired one
C27_Witness ==
    /\ pass /\ raised = NoExc /\ status = ActiveStatus
    /\ Bound(relation)
    /\ \E k \in CallsOf(calls) : k.op = "add_layer" /\ k.res = "ok"
    /\ \E k \in CallsOf(calls) : k.op = "pull" /\ k.path = MIMIR_CONFIG /\ k.res = "ok"
    /\ PushedConfig(calls)
    /\ safe_load(files[MIMIR_CONFIG]).value = PyDict(DesiredConfig)
    /\ plan = _pebble_layer

(***************************************************************************)
(* C28.  Status reflects only the latest pass.  A pass that runs on a      *)
(* reachable container after the status was left Blocked or Waiting, in    *)
(* which no call fails and which returns, ends Active; a pass on an        *)
(* unreachable container after the status was left Active ends Waiting     *)
(* for Pebble.                                                             *)
(***************************************************************************)
C28_LatestPassDecides ==
    [][/\ (/\ pass' /\ can_connect /\ Clean(calls') /\ raised' = NoExc
           /\ status.name \in {"blocked", "waiting"})
          => status' = ActiveStatus
       /\ (pass' /\ ~can_connect /\ status = ActiveStatus)
          => status' = WaitingForPebble]_vars

(***************************************************************************)
(* C29.  The stop event only clears the workload version.  The stop hook   *)
(* sets the workload version to the empty string; it leaves the status,    *)
(* the files and directories of the container, the plan and the service    *)
(* as they were, runs no pass, makes no call on the container and so       *)
(* issues no restart, and completes without error.                         *)
(***************************************************************************)
C29_StopClearsVersionOnly ==
    [][event' = "stop" =>
          /\ workload_version' = ""
          /\ UNCHANGED << status, files, dirs, plan, running, can_connect >>
          /\ ~pass' /\ calls' = << >> /\ Restarts(calls') = 0
          /\ raised' = NoExc]_vars

\* the stop hook has run on a unit that was Active with its service running
C29_Witness ==
    /\ event = "stop"
    /\ workload_version = ""
    /\ status = ActiveStatus
    /\ running
    /\ MIMIR_CONFIG \in DOMAIN files
    /\ plan = _pebble_layer

(***************************************************************************)
(* C30.  Requirer relation handling never fails and emits ready exactly on *)
(* change.  In every relation-created, -joined and -changed hook the       *)
(* handler stores the endpoints it reads from the relation data; unless a  *)
(* call on the container fails in the pass that ready runs, the hook       *)
(* completes without error; and ready is emitted exactly when the          *)
(* endpoints read differ from those stored before, also when they have     *)
(* become empty.                                                           *)
(***************************************************************************)
C30_RelationHandlingTotal ==
    [][event' \in RelationHooks =>
          /\ current_endpoints' = _endpoints_from_relation_data(relation').value
          /\ Clean(calls') => raised' = NoExc
          /\ Emitted(calls', "ready") <=> current_endpoints' # current_endpoints]_vars

(***************************************************************************)
(* C31.  Stored endpoints are reset when the relation breaks.  When the    *)
(* relation-broken hook has been handled, the stored endpoints are the     *)
(* empty mapping; and the relation-created hook of a relation that is      *)
(* established again, with endpoints in its databag, emits ready, also     *)
(* when these are the endpoints the relation had before it broke.          *)
(***************************************************************************)
C31_StoredResetOnBroken ==
    [][/\ event' = "s3-relation-broken" => current_endpoints' = EmptyMap
       /\ (event' = "s3-relation-created" /\ current_endpoints' # EmptyMap)
             => Emitted(calls', "ready")]_vars

(***************************************************************************)
(* C32.  Provider update_endpoints is scoped by relation id.  A call with  *)
(* a relation id, 0 included, leaves the databags of every other relation  *)
(* unchanged and writes the data, with the requested bucket, to the        *)
(* relation of that id if its requirer has published a bucket; a call      *)
(* without an id writes the data to every relation whose requirer has      *)
(* published a bucket, each with its own bucket, and leaves the others     *)
(* unchanged.                                                              *)
(***************************************************************************)
\* the databag of relation i of rels holds data with the bucket of i
Holds(rels, i, data) ==
    /\ rels[i].app["bucket"] = rels[i].remote
    /\ \A k \in DOMAIN data : rels[i].app[k] = data[k]

C32_UpdateScopedByRelationId ==
    [][s3_provider'.update.called =>
          \A u \in {s3_provider'.update} :
          \A i \in DOMAIN s3_provider.relations :
             IF (u.relation_id.given => i = u.relation_id.id)
                /\ s3_provider.relations[i].remote # ""
             THEN /\ "bucket" \in DOMAIN s3_provider'.relations[i].app
                  /\ Holds(s3_provider'.relations, i, u.data)
             ELSE s3_provider'.relations[i] = s3_provider.relations[i]]_vars

====
